---- MODULE Spec2Model ----
(***************************************************************************)
(* Model of src/lambda_function.py: the S3-triggered image transcoding     *)
(* handler.  Strings (keys, prefixes, format names, colour modes) are      *)
(* sequences of one-character strings so that startswith, rstrip, upper,   *)
(* lower, dirname, basename, splitext and unquote_plus are computed as the *)
(* Python library computes them.                                           *)
(***************************************************************************)
EXTENDS Integers, Sequences, FiniteSets, TLC

\* ------------------------------------------------------------------ bounds
MaxKeyLen == 3
MaxPrefixLen == 2
MaxChain == 2

\* --------------------------------------------------------------- constants
MAX_INPUT_SIZE_BYTES == 52428800
None == -1

JPEG == <<"J", "P", "E", "G">>
JPG  == <<"J", "P", "G">>
PNG  == <<"P", "N", "G">>
WEBP == <<"W", "E", "B", "P">>
GIF  == <<"G", "I", "F">>

DEFAULT_OUTPUT_FORMAT == JPEG

CONTENT_TYPE_KEYS == {JPEG, JPG, PNG, WEBP}

CONTENT_TYPE_MAP(fmt) ==
    CASE fmt = JPEG -> "image/jpeg"
      [] fmt = JPG  -> "image/jpeg"
      [] fmt = PNG  -> "image/png"
      [] fmt = WEBP -> "image/webp"

\* Formats the imaging library's save() has an encoder registered for
\* (of the names this program can pass to it).
SAVE_FORMATS == {JPEG, PNG, WEBP}

RGB  == <<"R", "G", "B">>
RGBA == <<"R", "G", "B", "A">>
LA   == <<"L", "A">>
LAB  == <<"L", "A", "B">>
PAL  == <<"P">>

\* ------------------------------------------------------- string primitives
Range(s) == {s[i] : i \in 1..Len(s)}

SeqsUpTo(S, lo, hi) == UNION {[1..k -> S] : k \in lo..hi}

\* str.startswith
StartsWith(s, p) == Len(p) <= Len(s) /\ SubSeq(s, 1, Len(p)) = p

\* str.rstrip(c)
RECURSIVE Rstrip(_, _)
Rstrip(s, c) ==
    IF s # <<>> /\ s[Len(s)] = c THEN Rstrip(SubSeq(s, 1, Len(s) - 1), c) ELSE s

\* str.rfind(c), 1-based; 0 when absent
Rfind(s, c) ==
    LET hits == {i \in 1..Len(s) : s[i] = c}
    IN IF hits = {} THEN 0 ELSE CHOOSE i \in hits : \A j \in hits : j <= i

LowerLetters == <<"a", "b", "e", "f", "g", "i", "j", "n", "p", "w">>
UpperLetters == <<"A", "B", "E", "F", "G", "I", "J", "N", "P", "W">>

UpperChar(c) ==
    IF \E i \in 1..Len(LowerLetters) : LowerLetters[i] = c
    THEN UpperLetters[CHOOSE i \in 1..Len(LowerLetters) : LowerLetters[i] = c]
    ELSE c

LowerChar(c) ==
    IF \E i \in 1..Len(UpperLetters) : UpperLetters[i] = c
    THEN LowerLetters[CHOOSE i \in 1..Len(UpperLetters) : UpperLetters[i] = c]
    ELSE c

\* str.upper / str.lower
Upper(s) == [i \in 1..Len(s) |-> UpperChar(s[i])]
Lower(s) == [i \in 1..Len(s) |-> LowerChar(s[i])]

\* --------------------------------------------------- urllib.parse.unquote_plus
HexDigits == <<"0", "1", "2", "3", "4", "5", "6", "7", "8", "9",
               "A", "B", "C", "D", "E", "F">>

IsHex(c) == \E i \in 1..16 : HexDigits[i] = UpperChar(c)
HexVal(c) == (CHOOSE i \in 1..16 : HexDigits[i] = UpperChar(c)) - 1

\* the characters of the modelled alphabet by code point
Chr(n) ==
    CASE n = 32 -> " "
      [] n = 37 -> "%"
      [] n = 43 -> "+"
      [] n = 46 -> "."
      [] n = 47 -> "/"
      [] n = 97 -> "a"
      [] OTHER -> "?"

RECURSIVE unquote_plus(_)
unquote_plus(s) ==
    IF s = <<>> THEN <<>>
    ELSE IF s[1] = "+" THEN <<" ">> \o unquote_plus(Tail(s))
    ELSE IF s[1] = "%" /\ Len(s) >= 3 /\ IsHex(s[2]) /\ IsHex(s[3])
         THEN <<Chr(16 * HexVal(s[2]) + HexVal(s[3]))>>
              \o unquote_plus(SubSeq(s, 4, Len(s)))
    ELSE <<s[1]>> \o unquote_plus(Tail(s))

\* the key as the S3 notification carries it (the encoding line 71 undoes)
RECURSIVE quote_plus(_)
quote_plus(s) ==
    IF s = <<>> THEN <<>>
    ELSE (CASE s[1] = " " -> <<"+">>
            [] s[1] = "+" -> <<"%", "2", "B">>
            [] s[1] = "%" -> <<"%", "2", "5">>
            [] OTHER -> <<s[1]>>) \o quote_plus(Tail(s))

\* ------------------------------------------------------------ os.path (posix)
AllSlashes(s) == \A i \in 1..Len(s) : s[i] = "/"

\* os.path.basename
basename(p) == SubSeq(p, Rfind(p, "/") + 1, Len(p))

\* os.path.dirname
dirname(p) ==
    LET head == SubSeq(p, 1, Rfind(p, "/"))
    IN IF head # <<>> /\ ~AllSlashes(head) THEN Rstrip(head, "/") ELSE head

\* os.path.splitext applied to a file name: the index of the dot that starts
\* the extension, 0 when there is none (leading dots do not start one)
ExtDot(f) ==
    LET sepIndex == Rfind(f, "/")
        dotIndex == Rfind(f, ".")
    IN IF dotIndex > sepIndex
          /\ \E i \in (sepIndex + 1)..(dotIndex - 1) : f[i] # "."
       THEN dotIndex ELSE 0

splitext_root(f) == IF ExtDot(f) = 0 THEN f ELSE SubSeq(f, 1, ExtDot(f) - 1)


\* -------------------------------------------------------- format selection
\* 'A' in getattr(image, 'mode', '')
HasA(mode) == "A" \in Range(mode)

\* the alpha rule of line 43 left out
determine_without_alpha_rule(original_format, mode) ==
    IF original_format # <<>> /\ Upper(original_format) \in CONTENT_TYPE_KEYS
    THEN Upper(original_format)
    ELSE DEFAULT_OUTPUT_FORMAT

_determine_output_format(original_format, mode) ==
    IF original_format # <<>> /\ Upper(original_format) \in CONTENT_TYPE_KEYS
    THEN Upper(original_format)
    ELSE IF HasA(mode) THEN PNG
    ELSE DEFAULT_OUTPUT_FORMAT

\* Image.convert(target): the pixel mode becomes target; a palette
\* transparency entry survives only when the mode does not change.
convert(img, target) ==
    [mode |-> target,
     transparency |-> IF img.mode = target THEN img.transparency ELSE FALSE]

\* lines 114-116: exif_transpose and resize keep mode and info; the mode is
\* normalised to RGBA when its name contains 'A', else to RGB.
normalize_mode(img) == IF HasA(img.mode) THEN convert(img, RGBA) ELSE convert(img, RGB)

\* the image returned as it came, neither composited nor converted
composite_returns_input(img) == [mode |-> img.mode, composited |-> FALSE]

\* the result is the white RGB background (composited) or a plain conversion
_composite_for_jpeg(img) ==
    IF img.mode \in {RGBA, LA} \/ (img.mode = PAL /\ img.transparency)
    THEN [mode |-> RGB, composited |-> TRUE]
    ELSE [mode |-> convert(img, RGB).mode, composited |-> FALSE]

\* lines 121-126
select_image_to_save(fmt, img) ==
    IF fmt \in {JPEG, JPG} THEN _composite_for_jpeg(img)
    ELSE [mode |-> img.mode, composited |-> FALSE]

\* Image.save(format=fmt): raises for a format without a registered encoder
\* and for a mode the JPEG encoder cannot write.
encoder_rejects(fmt, mode) ==
    \/ fmt \notin SAVE_FORMATS
    \/ fmt = JPEG /\ mode # RGB

\* the comparison of line 91 with >= for >
too_large_inclusive(cl) == cl # None /\ cl # 0 /\ cl >= MAX_INPUT_SIZE_BYTES

\* the size guard of line 91
too_large(cl) == cl # None /\ cl # 0 /\ cl > MAX_INPUT_SIZE_BYTES

\* the guard comparing for equality instead of a prefix match
is_processed_exact(k, prefix) == k = prefix

\* the recursion guard of line 78
is_processed(k, prefix) == StartsWith(k, prefix)

\* lines 145-151
build_output_key(k, prefix, fmt) ==
    LET filename == basename(k)
        name_root == splitext_root(filename)
        ext == Lower(fmt)
        key_dir == dirname(k)
        processed_subpath ==
            IF key_dir # <<>> THEN key_dir \o <<"/">> \o name_root \o <<".">> \o ext
            ELSE name_root \o <<".">> \o ext
    IN Rstrip(prefix, "/") \o <<"/">> \o processed_subpath

\* line 153
content_type_for(fmt) ==
    IF fmt \in CONTENT_TYPE_KEYS THEN CONTENT_TYPE_MAP(fmt) ELSE "application/octet-stream"

\* ------------------------------------------------------------------ inputs
KeyChars == {"a", "/", "."}
PrefixChars == {"a", "/"}

\* keys whose notification form carries escapes
EncodedKeys == {<<"a", "+", "a">>, <<"%", "2", "F", "a">>,
                <<"a", "%", "2", "f", "a">>, <<"%", "a">>}

RawKeys == SeqsUpTo(KeyChars, 1, MaxKeyLen) \cup EncodedKeys
Prefixes == SeqsUpTo(PrefixChars, 0, MaxPrefixLen)

Events == [ok : {TRUE}, key : RawKeys] \cup {[ok |-> FALSE, key |-> <<>>]}

ContentLengths == {None, 0, MAX_INPUT_SIZE_BYTES, MAX_INPUT_SIZE_BYTES + 1}

DecoderFormats == {JPEG, PNG, WEBP, GIF}
DecoderModes == {RGB, RGBA, LA, PAL, LAB}

\* what Image.open can hand back: a format tag, a mode, and for a palette
\* image possibly a transparency entry in info
Decodable(formats) ==
    {d \in [format : formats, mode : DecoderModes, transparency : BOOLEAN] :
        d.transparency => d.mode = PAL}

NoImage == [format |-> <<>>, mode |-> <<>>, transparency |-> FALSE]
NoPixels == [mode |-> <<>>, transparency |-> FALSE]
NoSave == [mode |-> <<>>, composited |-> FALSE]

\* ------------------------------------------------------------------- state
VARIABLES
    PROCESSED_PREFIX,   \* configuration, read once
    event,              \* the trigger event of the current invocation
    key,                \* the decoded key
    pc,                 \* position in lambda_handler
    passed,             \* stages the current invocation has completed
    status,             \* statusCode of the returned response, 0 before return
    stage,              \* where the invocation ended
    content_length,     \* response.get('ContentLength')
    decoded,            \* the image as Image.open returned it
    image,              \* the image being processed
    output_format,
    image_to_save,
    output_key,
    content_type,
    puts,               \* put_object calls of the current invocation
    store,              \* keys written by the chain of invocations
    chain,              \* re-triggered invocations so far
    writes              \* put_object calls of the whole chain

vars == <<PROCESSED_PREFIX, event, key, pc, passed, status, stage,
          content_length, decoded, image, output_format, image_to_save,
          output_key, content_type, puts, store, chain, writes>>

fetchVars == <<content_length>>
imageVars == <<decoded, image, output_format, image_to_save>>
outVars == <<output_key, content_type>>
storeVars == <<puts, store, writes>>
envVars == <<PROCESSED_PREFIX, event, chain>>

Fresh ==
    /\ key = <<>>
    /\ passed = {}
    /\ status = 0
    /\ stage = "running"
    /\ content_length = None
    /\ decoded = NoImage
    /\ image = NoPixels
    /\ output_format = <<>>
    /\ image_to_save = NoSave
    /\ output_key = <<>>
    /\ content_type = ""
    /\ puts = 0

Init ==
    /\ PROCESSED_PREFIX \in Prefixes
    /\ event \in Events
    /\ pc = "start"
    /\ Fresh
    /\ store = {}
    /\ chain = 0
    /\ writes = 0

\* a return statement of lambda_handler
Return(code, st) ==
    /\ pc' = "done"
    /\ status' = code
    /\ stage' = st

Pass(st, next) ==
    /\ pc' = next
    /\ passed' = passed \cup {st}
    /\ UNCHANGED <<status, stage>>


\* ----------------------------------------------------------------- actions
\* lines 68-75
ParseEvent ==
    /\ pc = "start"
    /\ IF event.ok
       THEN /\ key' = unquote_plus(event.key)
            /\ Pass("parse", "guard")
       ELSE /\ Return(400, "parse")
            /\ UNCHANGED <<key, passed>>
    /\ UNCHANGED <<envVars, fetchVars, imageVars, outVars, storeVars>>

\* lines 77-81
RecursionGuard ==
    /\ pc = "guard"
    /\ IF is_processed(key, PROCESSED_PREFIX)
       THEN /\ Return(200, "skip")
            /\ UNCHANGED passed
       ELSE Pass("guard", "fetch")
    /\ UNCHANGED <<envVars, key, fetchVars, imageVars, outVars, storeVars>>

\* lines 83-88: get_object raises or answers with some ContentLength
GetObject ==
    /\ pc = "fetch"
    /\ \/ /\ Return(500, "fetch")
          /\ UNCHANGED <<passed, content_length>>
       \/ /\ content_length' \in ContentLengths
          /\ Pass("fetch", "size")
    /\ UNCHANGED <<envVars, key, imageVars, outVars, storeVars>>

\* lines 90-94
SizeCheck ==
    /\ pc = "size"
    /\ IF too_large(content_length)
       THEN /\ Return(413, "size")
            /\ UNCHANGED passed
       ELSE Pass("size", "read")
    /\ UNCHANGED <<envVars, key, fetchVars, imageVars, outVars, storeVars>>

\* lines 96-98: the streaming read is outside every try block
ReadBody ==
    /\ pc = "read"
    /\ \/ /\ pc' = "raised"
          /\ stage' = "read"
          /\ UNCHANGED <<passed, status>>
       \/ Pass("read", "open")
    /\ UNCHANGED <<envVars, key, fetchVars, imageVars, outVars, storeVars>>

\* lines 100-106
OpenImage ==
    /\ pc = "open"
    /\ \/ /\ Return(415, "decode")
          /\ UNCHANGED <<passed, decoded, image>>
       \/ /\ decoded' \in Decodable(DecoderFormats)
          /\ image' = [mode |-> decoded'.mode, transparency |-> decoded'.transparency]
          /\ Pass("decode", "format")
    /\ UNCHANGED <<envVars, key, fetchVars, output_format, image_to_save,
                   outVars, storeVars>>

\* lines 108-110
DetermineFormat ==
    /\ pc = "format"
    /\ output_format' = _determine_output_format(decoded.format, image.mode)
    /\ Pass("format", "resize")
    /\ UNCHANGED <<envVars, key, fetchVars, decoded, image, image_to_save,
                   outVars, storeVars>>

\* lines 112-119
Resize ==
    /\ pc = "resize"
    /\ \/ /\ Return(500, "resize")
          /\ UNCHANGED <<passed, image>>
       \/ /\ image' = normalize_mode(image)
          /\ Pass("resize", "composite")
    /\ UNCHANGED <<envVars, key, fetchVars, decoded, output_format,
                   image_to_save, outVars, storeVars>>

\* lines 121-135
Composite ==
    /\ pc = "composite"
    /\ image_to_save' = select_image_to_save(output_format, image)
    /\ Pass("composite", "save")
    /\ UNCHANGED <<envVars, key, fetchVars, decoded, image, output_format,
                   outVars, storeVars>>

\* the except branch of lines 140-142 logging without returning
SaveSwallowsError ==
    /\ pc = "save"
    /\ pc' = "mapkey"
    /\ UNCHANGED <<envVars, key, passed, status, stage, fetchVars, imageVars,
                   outVars, storeVars>>

\* lines 137-142
Save ==
    /\ pc = "save"
    /\ \/ /\ Return(500, "encode")
          /\ UNCHANGED passed
       \/ /\ ~encoder_rejects(output_format, image_to_save.mode)
          /\ Pass("encode", "mapkey")
    /\ UNCHANGED <<envVars, key, fetchVars, imageVars, outVars, storeVars>>

\* lines 144-153
BuildKey ==
    /\ pc = "mapkey"
    /\ output_key' = build_output_key(key, PROCESSED_PREFIX, output_format)
    /\ content_type' = content_type_for(output_format)
    /\ Pass("mapkey", "put")
    /\ UNCHANGED <<envVars, key, fetchVars, imageVars, storeVars>>

\* lines 155-166
PutObject ==
    /\ pc = "put"
    /\ \/ /\ Return(500, "write")
          /\ UNCHANGED <<passed, storeVars>>
       \/ /\ puts' = puts + 1
          /\ writes' = writes + 1
          /\ store' = store \cup {output_key}
          /\ Pass("put", "return")
    /\ UNCHANGED <<envVars, key, fetchVars, imageVars, outVars>>

\* lines 168-170
ReturnSuccess ==
    /\ pc = "return"
    /\ Return(200, "success")
    /\ UNCHANGED <<envVars, key, passed, fetchVars, imageVars, outVars, storeVars>>

\* The bucket notifies the function of the object it has just written: a new
\* invocation of lambda_handler on the written key.
Retrigger ==
    /\ pc = "done"
    /\ stage = "success"
    /\ chain < MaxChain
    /\ chain' = chain + 1
    /\ event' = [ok |-> TRUE, key |-> quote_plus(output_key)]
    /\ pc' = "start"
    /\ key' = <<>>
    /\ passed' = {}
    /\ status' = 0
    /\ stage' = "running"
    /\ content_length' = None
    /\ decoded' = NoImage
    /\ image' = NoPixels
    /\ output_format' = <<>>
    /\ image_to_save' = NoSave
    /\ output_key' = <<>>
    /\ content_type' = ""
    /\ puts' = 0
    /\ UNCHANGED <<PROCESSED_PREFIX, store, writes>>

Next ==
    \/ ParseEvent
    \/ RecursionGuard
    \/ GetObject
    \/ SizeCheck
    \/ ReadBody
    \/ OpenImage
    \/ DetermineFormat
    \/ Resize
    \/ Composite
    \/ Save
    \/ BuildKey
    \/ PutObject
    \/ ReturnSuccess
    \/ Retrigger

Spec == Init /\ [][Next]_vars

\* ------------------------------------------- format selection on any hint
\* _determine_output_format and the rest of the handler applied to a decoded
\* image whose format tag is any spelling of a name, or absent.
Hints == {<<>>, JPEG, JPG, PNG, WEBP, GIF,
          <<"j", "p", "e", "g">>, <<"J", "p", "g">>, <<"j", "p", "g">>,
          <<"p", "n", "g">>, <<"P", "n", "g">>, <<"w", "e", "b", "p">>,
          <<"g", "i", "f">>, <<"b", "i", "n">>}

FormatInit ==
    /\ PROCESSED_PREFIX \in Prefixes
    /\ event \in {[ok |-> TRUE, key |-> <<"a", ".", "a">>]}
    /\ key = unquote_plus(event.key)
    /\ ~is_processed(key, PROCESSED_PREFIX)
    /\ pc = "format"
    /\ passed = {"parse", "guard", "fetch", "size", "read", "decode"}
    /\ status = 0
    /\ stage = "running"
    /\ content_length = None
    /\ decoded \in Decodable(Hints)
    /\ image = [mode |-> decoded.mode, transparency |-> decoded.transparency]
    /\ output_format = <<>>
    /\ image_to_save = NoSave
    /\ output_key = <<>>
    /\ content_type = ""
    /\ puts = 0
    /\ store = {}
    /\ chain = 0
    /\ writes = 0

FormatNext ==
    \/ DetermineFormat
    \/ Resize
    \/ Composite
    \/ Save
    \/ BuildKey
    \/ PutObject
    \/ ReturnSuccess

FormatSpec == FormatInit /\ [][FormatNext]_vars


\* ------------------------------------------------------------------ claims
Returned == pc = "done"
Ended == pc \in {"done", "raised"}
StatusCodes == {200, 400, 413, 415, 500}

\* colour modes with an alpha channel
AlphaModes == {RGBA, LA}

\* the hint names a known target format, in any letter case
HintRecognized(h) == h # <<>> /\ Upper(h) \in {JPEG, JPG, PNG, WEBP}

\* C1: an invocation whose decoded key starts with the processed prefix
\* returns statusCode 200 at the recursion guard and calls put_object never.
C1_SkipWithoutWrite ==
    ("parse" \in passed /\ pc # "guard" /\ StartsWith(key, PROCESSED_PREFIX))
        => /\ Returned
           /\ status = 200
           /\ stage = "skip"
           /\ puts = 0
           /\ passed = {"parse"}

C1_Witness ==
    /\ Returned
    /\ stage = "skip"
    /\ PROCESSED_PREFIX # <<>>
    /\ Len(key) > Len(PROCESSED_PREFIX)
    /\ puts = 0

\* C2: put_object is called at most once per invocation and only after
\* fetch, size validation, decode, resize and encode succeeded; an invocation
\* that ends at an earlier stage has written nothing; the one write carries
\* the finished key and content type.
C2_WriteOnceAfterAllStages ==
    /\ puts <= 1
    /\ puts = 1 => {"fetch", "size", "read", "decode", "resize", "encode"} \subseteq passed
    /\ (Ended /\ stage \in {"parse", "skip", "fetch", "size", "read", "decode",
                            "resize", "encode"}) => puts = 0
    /\ puts = 1 => output_key \in store /\ content_type # ""
    /\ chain = 0 => writes = puts /\ Cardinality(store) = puts

C2_Witness == Returned /\ stage = "success" /\ puts = 1

\* C3 (as claimed): no exception leaves lambda_handler; every invocation that
\* ends has returned a response with statusCode 200, 400, 413, 415 or 500.
C3_AsClaimed ==
    /\ pc # "raised"
    /\ Ended => status \in StatusCodes

\* the store reports a length above the ceiling
ReportedTooLarge == content_length # None /\ content_length > MAX_INPUT_SIZE_BYTES

\* C4: after a successful fetch the invocation returns 413 exactly when the
\* reported ContentLength exceeds MAX_INPUT_SIZE_BYTES, then without reading
\* the body, decoding or writing; otherwise the size check passes and the
\* handler goes on to read and decode the body.
C4_SizeCeiling ==
    ("fetch" \in passed /\ pc # "size") =>
        /\ (status = 413) <=> ReportedTooLarge
        /\ (stage = "size") <=> ReportedTooLarge
        /\ ReportedTooLarge =>
               /\ Returned
               /\ passed = {"parse", "guard", "fetch"}
               /\ decoded = NoImage
               /\ puts = 0
        /\ ~ReportedTooLarge =>
               /\ "size" \in passed
               /\ pc = "read" \/ "read" \in passed \/ (pc = "raised" /\ stage = "read")

C4_Witness ==
    /\ Returned
    /\ status = 413
    /\ content_length = MAX_INPUT_SIZE_BYTES + 1

\* the target format a recognized hint names
TargetOf(h) == IF Upper(h) = JPG THEN JPEG ELSE Upper(h)

EndsWith(s, t) == Len(t) <= Len(s) /\ SubSeq(s, Len(s) - Len(t) + 1, Len(s)) = t

\* C5 (as claimed): the selected format is one of JPEG, PNG, WEBP, a
\* recognized hint gives its format with JPG turned into JPEG, and that value
\* is the one the encoder, the key extension and the content type use.
C5_AsClaimed ==
    "format" \in passed =>
        /\ output_format \in {JPEG, PNG, WEBP}
        /\ HintRecognized(decoded.format) => output_format = TargetOf(decoded.format)
        /\ "mapkey" \in passed =>
               /\ EndsWith(output_key, <<".">> \o Lower(output_format))
               /\ content_type = content_type_for(output_format)
        /\ "encode" \in passed => output_format \in SAVE_FORMATS

\* C6: with the hint absent or unrecognized, the selected format is PNG when
\* the colour mode has an alpha channel, and JPEG only when it has none.
C6_AlphaSelectsPNG ==
    ("format" \in passed /\ ~HintRecognized(decoded.format)) =>
        /\ output_format \in {PNG, JPEG}
        /\ decoded.mode \in AlphaModes => output_format = PNG
        /\ output_format = JPEG => decoded.mode \notin AlphaModes

C6_Witness ==
    /\ "format" \in passed
    /\ decoded.format = GIF
    /\ decoded.mode = RGBA
    /\ output_format = PNG

\* C7: when the output format is JPEG the image handed to the encoder has no
\* alpha channel; an image decoded in an alpha mode gets there composited.
C7_JpegNeverCarriesAlpha ==
    /\ ("composite" \in passed /\ output_format = JPEG) =>
           /\ image_to_save.mode \notin AlphaModes
           /\ ~HasA(image_to_save.mode)
           /\ decoded.mode \in AlphaModes => image_to_save.composited
    /\ ("encode" \in passed /\ output_format = JPEG) => image_to_save.mode = RGB

C7_Witness ==
    /\ "encode" \in passed
    /\ output_format = JPEG
    /\ decoded.mode = RGBA
    /\ image_to_save = [mode |-> RGB, composited |-> TRUE]

\* the key up to and including its last separator, and what follows it
DirPortion(k) == SubSeq(k, 1, Rfind(k, "/"))
FileName(k) == SubSeq(k, Rfind(k, "/") + 1, Len(k))

ExpectedKey(k, prefix, fmt) ==
    Rstrip(prefix, "/") \o <<"/">> \o DirPortion(k)
        \o splitext_root(FileName(k)) \o <<".">> \o Lower(fmt)

Processed == <<"p", "r", "o", "c", "e", "s", "s", "e", "d", "/">>

\* C8 (as claimed): the output key is the processed prefix with one trailing
\* separator, then the directory portion of the key as it is, then the file
\* name with its extension replaced by the lowercase format name.
C8_AsClaimed ==
    /\ "mapkey" \in passed => output_key = ExpectedKey(key, PROCESSED_PREFIX, output_format)
    /\ build_output_key(<<"a", "/", "b", "/", "c", ".", "b", "m", "p">>, Processed, PNG)
           = Processed \o <<"a", "/", "b", "/", "c", ".", "p", "n", "g">>
    /\ build_output_key(<<"c", ".", "b", "m", "p">>, Processed, JPEG)
           = Processed \o <<"c", ".", "j", "p", "e", "g">>

\* C9 (as claimed): with JPEG as output format, an image decoded in RGBA mode
\* or in palette mode with a transparency entry is composited onto white
\* before it is encoded.
C9_AsClaimed ==
    ("composite" \in passed
        /\ output_format = JPEG
        /\ (decoded.mode = RGBA \/ (decoded.mode = PAL /\ decoded.transparency)))
        => image_to_save.composited

\* C10 (as claimed): every key written starts with PROCESSED_PREFIX, and a
\* chain of re-triggered invocations writes at most once.
C10_AsClaimed ==
    /\ \A k \in store : StartsWith(k, PROCESSED_PREFIX)
    /\ writes <= 1

====
